---- MODULE Spec2Model ----
(***************************************************************************)
(* Model of .github/workflows/scripts/build_directory_md.py: the walk of   *)
(* the source tree (good_filepaths), the heading emitter (print_path) and  *)
(* the outline builder (build_directory_md) with its process-wide          *)
(* accumulator g_output.                                                   *)
(*                                                                         *)
(* A Python str is a sequence of one-character strings, so that split,     *)
(* lstrip, title, replace and the comparison of sorted() are computed      *)
(* character by character as the interpreter computes them.                *)
(***************************************************************************)
EXTENDS Integers, Sequences, FiniteSets, TLC

(***************************************************************************)
(* Bounds of the model.                                                    *)
(***************************************************************************)
MaxFiles == 3
MaxCalls == 2

(***************************************************************************)
(* Characters and their code points (printable ASCII and the newline).     *)
(* Code point 96 is written "GRAVE".                                       *)
(***************************************************************************)
AsciiChars ==
  <<" ", "!", "\"", "#", "$", "%", "&", "'", "(", ")", "*", "+", ",", "-",
    ".", "/", "0", "1", "2", "3", "4", "5", "6", "7", "8", "9", ":", ";",
    "<", "=", ">", "?", "@", "A", "B", "C", "D", "E", "F", "G", "H", "I",
    "J", "K", "L", "M", "N", "O", "P", "Q", "R", "S", "T", "U", "V", "W",
    "X", "Y", "Z", "[", "\\", "]", "^", "_", "GRAVE", "a", "b", "c", "d", "e",
    "f", "g", "h", "i", "j", "k", "l", "m", "n", "o", "p", "q", "r", "s",
    "t", "u", "v", "w", "x", "y", "z", "{", "|", "}", "~">>

CharSet == {AsciiChars[i] : i \in 1..Len(AsciiChars)} \cup {"\n"}

OrdTable ==
  [c \in CharSet |->
     IF c = "\n" THEN 10
     ELSE 31 + (CHOOSE i \in 1..Len(AsciiChars) : AsciiChars[i] = c)]

Ord(c) == OrdTable[c]

Chr(n) == AsciiChars[n - 31]

IsUpper(c) == Ord(c) >= 65 /\ Ord(c) <= 90

IsLower(c) == Ord(c) >= 97 /\ Ord(c) <= 122

IsCased(c) == IsUpper(c) \/ IsLower(c)

LowerChar(c) == IF IsUpper(c) THEN Chr(Ord(c) + 32) ELSE c

UpperChar(c) == IF IsLower(c) THEN Chr(Ord(c) - 32) ELSE c

(***************************************************************************)
(* str methods and os.path functions the script calls.                     *)
(***************************************************************************)
os_sep == "/"

\* str.lower()
LowerStr(s) == [i \in 1..Len(s) |-> LowerChar(s[i])]

\* str.title(): a cased character that follows a cased character is
\* lowercased, any other cased character is uppercased.
Title(s) ==
  [i \in 1..Len(s) |->
     IF IsCased(s[i])
       THEN IF i > 1 /\ IsCased(s[i - 1]) THEN LowerChar(s[i]) ELSE UpperChar(s[i])
       ELSE s[i]]

RECURSIVE Replace(_, _, _)
\* str.replace(c, r) for a one-character c
Replace(s, c, r) ==
  IF s = <<>> THEN <<>>
  ELSE (IF Head(s) = c THEN r ELSE <<Head(s)>>) \o Replace(Tail(s), c, r)

RECURSIVE LStrip(_, _)
\* str.lstrip(chars): drops every leading character that is in chars
LStrip(s, chars) ==
  IF s # <<>> /\ Head(s) \in chars THEN LStrip(Tail(s), chars) ELSE s

RECURSIVE RStrip(_, _)
RStrip(s, chars) ==
  IF s # <<>> /\ s[Len(s)] \in chars THEN RStrip(SubSeq(s, 1, Len(s) - 1), chars) ELSE s

\* str.rfind(c) + 1: the 1-based position of the last c, 0 when there is none
RFind(s, c) ==
  LET I == {i \in 1..Len(s) : s[i] = c}
  IN  IF I = {} THEN 0 ELSE CHOOSE i \in I : \A j \in I : j <= i

\* str.count(c)
Count(s, c) == Cardinality({i \in 1..Len(s) : s[i] = c})

RECURSIVE SplitAcc(_, _, _)
SplitAcc(s, c, cur) ==
  IF s = <<>> THEN <<cur>>
  ELSE IF Head(s) = c THEN <<cur>> \o SplitAcc(Tail(s), c, <<>>)
  ELSE SplitAcc(Tail(s), c, Append(cur, Head(s)))

\* str.split(c): empty segments are kept, "".split(c) is [""]
Split(s, c) == SplitAcc(s, c, <<>>)

RECURSIVE Join(_, _)
\* sep.join(parts)
Join(sep, parts) ==
  IF parts = <<>> THEN <<>>
  ELSE IF Len(parts) = 1 THEN parts[1]
  ELSE parts[1] \o sep \o Join(sep, Tail(parts))

\* os.path.join(a, b)
PathJoin(a, b) ==
  IF b # <<>> /\ Head(b) = os_sep THEN b
  ELSE IF a = <<>> \/ a[Len(a)] = os_sep THEN a \o b
  ELSE a \o <<os_sep>> \o b

\* os.path.split(p): <<head, tail>>
PathSplit(p) ==
  LET i    == RFind(p, os_sep)
      head == SubSeq(p, 1, i)
      tail == SubSeq(p, i + 1, Len(p))
  IN  IF head # <<>> /\ \E k \in 1..Len(head) : head[k] # os_sep
        THEN <<RStrip(head, {os_sep}), tail>>
        ELSE <<head, tail>>

\* os.path.splitext(p): <<root, ext>>; leading dots of the basename are not
\* an extension separator
SplitExt(p) ==
  LET sepIndex == RFind(p, os_sep)
      dotIndex == RFind(p, ".")
  IN  IF dotIndex > sepIndex
         /\ \E k \in (sepIndex + 1)..(dotIndex - 1) : p[k] # "."
        THEN <<SubSeq(p, 1, dotIndex - 1), SubSeq(p, dotIndex, Len(p))>>
        ELSE <<p, <<>> >>

RECURSIVE StrLess(_, _)
\* a < b on str: code point by code point, a proper prefix is smaller
StrLess(a, b) ==
  IF b = <<>> THEN FALSE
  ELSE IF a = <<>> THEN TRUE
  ELSE IF Ord(Head(a)) # Ord(Head(b)) THEN Ord(Head(a)) < Ord(Head(b))
  ELSE StrLess(Tail(a), Tail(b))

StrLeq(a, b) == a = b \/ StrLess(a, b)

(***************************************************************************)
(* Constants of the script.                                                *)
(***************************************************************************)
URL_BASE ==
  <<"h", "t", "t", "p", "s", ":", "/", "/", "g", "i", "t", "h", "u", "b",
    ".", "c", "o", "m", "/", "T", "h", "e", "A", "l", "g", "o", "r", "i",
    "t", "h", "m", "s", "/", "R", "u", "s", "t", "/", "b", "l", "o", "b",
    "/", "m", "a", "s", "t", "e", "r">>

fs_exts == {<<".", "r", "s">>}

mod_rs == <<"m", "o", "d", ".", "r", "s">>

TitleLine ==
  <<"#", " ", "L", "i", "s", "t", " ", "o", "f", " ", "a", "l", "l", " ",
    "f", "i", "l", "e", "s", "\n">>

(***************************************************************************)
(* The filesystem: a tree is a set of files, each with the names of the    *)
(* directories that lead to it from the working directory and its own      *)
(* name.  Trees are drawn from the files below.                            *)
(***************************************************************************)
\* z.rs
F_z ==
    [dir |-> <<>>,
     name |-> <<"z", ".", "r", "s">>]

\* .mod.rs
F_dot_mod ==
    [dir |-> <<>>,
     name |-> <<".", "m", "o", "d", ".", "r", "s">>]

\* mod.rs
F_mod ==
    [dir |-> <<>>,
     name |-> <<"m", "o", "d", ".", "r", "s">>]

\* Q.RS
F_Q ==
    [dir |-> <<>>,
     name |-> <<"Q", ".", "R", "S">>]

\* n.txt
F_txt ==
    [dir |-> <<>>,
     name |-> <<"n", ".", "t", "x", "t">>]

\* a/f.rs
F_a_f ==
    [dir |-> << <<"a">> >>,
     name |-> <<"f", ".", "r", "s">>]

\* a/x/f.rs
F_a_x_f ==
    [dir |-> << <<"a">>, <<"x">> >>,
     name |-> <<"f", ".", "r", "s">>]

\* b/x/g.rs
F_b_x_g ==
    [dir |-> << <<"b">>, <<"x">> >>,
     name |-> <<"g", ".", "r", "s">>]

\* a/mod.rs
F_a_mod ==
    [dir |-> << <<"a">> >>,
     name |-> <<"m", "o", "d", ".", "r", "s">>]

\* a/_c/f.rs
F_a_c_f ==
    [dir |-> << <<"a">>, <<"_", "c">> >>,
     name |-> <<"f", ".", "r", "s">>]

\* _b/f.rs
F_b_f ==
    [dir |-> << <<"_", "b">> >>,
     name |-> <<"f", ".", "r", "s">>]

\* .g/f.rs
F_g_f ==
    [dir |-> << <<".", "g">> >>,
     name |-> <<"f", ".", "r", "s">>]

\* b/my f.rs
F_b_my_f ==
    [dir |-> << <<"b">> >>,
     name |-> <<"m", "y", " ", "f", ".", "r", "s">>]

\* sorting/bubble_sort.rs
F_bubble ==
    [dir |-> << <<"s", "o", "r", "t", "i", "n", "g">> >>,
     name |-> <<"b", "u", "b", "b", "l", "e", "_", "s", "o", "r", "t", ".", "r", "s">>]

\* sorting/quick_sort.rs
F_quick ==
    [dir |-> << <<"s", "o", "r", "t", "i", "n", "g">> >>,
     name |-> <<"q", "u", "i", "c", "k", "_", "s", "o", "r", "t", ".", "r", "s">>]

Universe ==
  {F_z, F_dot_mod, F_mod, F_Q, F_txt, F_a_f, F_a_x_f, F_b_x_g, F_a_mod,
   F_a_c_f, F_b_f, F_g_f, F_b_my_f, F_bubble, F_quick}

Trees == {T \in SUBSET Universe : Cardinality(T) <= MaxFiles}

(***************************************************************************)
(* good_filepaths                                                          *)
(***************************************************************************)
\* The directory a dirpath of os.walk names, as the names leading to it.
Resolve(dirpath) ==
  SelectSeq(Split(dirpath, os_sep), LAMBDA part : part # <<>> /\ part # <<".">>)

IsPrefix(p, s) == Len(p) <= Len(s) /\ SubSeq(s, 1, Len(p)) = p

\* dirnames and filenames of one os.walk triple
DirNames(T, d) ==
  {f.dir[Len(d) + 1] : f \in {g \in T : Len(g.dir) > Len(d) /\ IsPrefix(d, g.dir)}}

FileNames(T, d) == {f.name : f \in {g \in T : g.dir = d}}

\* the orders in which a directory listing may come
Perms(S) ==
  {s \in [1..Cardinality(S) -> S] : \A i, j \in 1..Cardinality(S) : i # j => s[i] # s[j]}

KeepDirDotOnly(d) == d[1] # "."

\* d[0] not in "._"
KeepDir(d) == d[1] \notin {".", "_"}

\* filename != "mod.rs" and os.path.splitext(filename)[1].lower() in fs_exts
GoodFile(filename) ==
  filename # mod_rs /\ LowerStr(SplitExt(filename)[2]) \in fs_exts

\* os.path.join(dirpath, filename).lstrip("./")
YieldPath(dirpath, filename) == LStrip(PathJoin(dirpath, filename), {".", "/"})

\* the default of the parameter top_dir
DefaultTopDir == <<".">>

(***************************************************************************)
(* md_prefix, print_path                                                   *)
(***************************************************************************)
Spaces(n) == [k \in 1..n |-> " "]

md_prefix_single_space(i) == IF i # 0 THEN Spaces(i) \o <<"*">> ELSE <<"\n", "#", "#">>

md_prefix(i) == IF i # 0 THEN Spaces(2 * i) \o <<"*">> ELSE <<"\n", "#", "#">>

\* new_part.replace("_", " ").title()
PartTitle(new_part) == Title(Replace(new_part, "_", <<" ">>))

\* f"{md_prefix(i)} {new_part.replace('_', ' ').title()}"
PartLine(i, new_part) == md_prefix(i) \o <<" ">> \o PartTitle(new_part)

PartDiffersAlways(old_parts, new_part, i) == TRUE

\* i + 1 > len(old_parts) or old_parts[i] != new_part   (i counts from 0)
PartDiffers(old_parts, new_part, i) ==
  i + 1 > Len(old_parts) \/ old_parts[i + 1] # new_part

\* the values of i for which print_path appends a line, in order
print_path(old_path, new_path) ==
  LET old_parts == Split(old_path, os_sep)
      new_parts == Split(new_path, os_sep)
  IN  SelectSeq([k \in 1..Len(new_parts) |-> k - 1],
                LAMBDA i : PartDiffers(old_parts, new_parts[i + 1], i)
                           /\ new_parts[i + 1] # <<>>)

(***************************************************************************)
(* build_directory_md                                                      *)
(***************************************************************************)
SortKeyCaseSensitive(path) == path

\* key=str.lower
SortKey(path) == LowerStr(path)

RECURSIVE Insert(_, _)
\* x goes after every element whose key is not greater: the sort is stable
Insert(x, s) ==
  IF s = <<>> THEN <<x>>
  ELSE IF StrLess(SortKey(x.path), SortKey(Head(s).path)) THEN <<x>> \o s
  ELSE <<Head(s)>> \o Insert(x, Tail(s))

RECURSIVE SortedFrom(_, _)
SortedFrom(s, acc) ==
  IF s = <<>> THEN acc ELSE SortedFrom(Tail(s), Insert(Head(s), acc))

\* sorted(good_filepaths(), key=str.lower)
Sorted(s) == SortedFrom(s, <<>>)

\* (filepath.count(os.sep) + 1) if filepath else 0
Indent(filepath) == IF filepath # <<>> THEN Count(filepath, os_sep) + 1 ELSE 0

\* "/".join((URL_BASE, filepath, filename)).replace(" ", "%20")
Url(filepath, filename) ==
  Replace(Join(<<"/">>, <<URL_BASE, filepath, filename>>), " ", <<"%", "2", "0">>)

\* os.path.splitext(filename.replace("_", " ").title())[0]
DisplayName(filename) == SplitExt(Title(Replace(filename, "_", <<" ">>)))[1]

\* f"{md_prefix(indent)} [{filename}]({url})"
FileLine(path) ==
  LET filepath == PathSplit(path)[1]
      filename == PathSplit(path)[2]
  IN  md_prefix(Indent(filepath)) \o <<" ", "[">> \o DisplayName(filename)
        \o <<"]", "(">> \o Url(filepath, filename) \o <<")">>

DocumentNoTitle(output) == Join(<<"\n">>, output)

\* "# List of all files\n" + "\n".join(g_output)
Document(output) == TitleLine \o Join(<<"\n">>, output)

(***************************************************************************)
(* State                                                                   *)
(***************************************************************************)
VARIABLES
  tree,      \* the files under the working directory
  pc,        \* where the program is
  top_dir,   \* the argument of the running build_directory_md call
  stack,     \* os.walk: the directories still to visit, next one first
  yielded,   \* what good_filepaths has yielded so far, in order
  files,     \* the sorted list the loop of build_directory_md runs over
  idx,       \* position of the loop in files
  old_path,  \* the directory of the previous file
  g_output,  \* the process-wide list of output lines
  h_output,  \* for each line of g_output, what it was appended for
  results,   \* the documents returned by the calls so far
  out_file   \* DIRECTORY.md

vars ==
  <<tree, pc, top_dir, stack, yielded, files, idx, old_path, g_output,
    h_output, results, out_file>>

Closed(content) == [open |-> FALSE, content |-> content]

Init ==
  /\ tree \in Trees
  /\ pc = "start"
  /\ top_dir = DefaultTopDir
  /\ stack = <<>>
  /\ yielded = <<>>
  /\ files = <<>>
  /\ idx = 1
  /\ old_path = <<>>
  /\ g_output = <<>>
  /\ h_output = <<>>
  /\ results = <<>>
  /\ out_file = Closed(<<>>)

\* build_directory_md(td) is entered: old_path = "" and the walk of
\* good_filepaths() starts, at its default directory whatever td is.
Enter(td) ==
  /\ top_dir' = td
  /\ old_path' = <<>>
  /\ stack' = <<DefaultTopDir>>
  /\ yielded' = <<>>
  /\ files' = <<>>
  /\ idx' = 1
  /\ pc' = "walk"
  /\ UNCHANGED <<tree, g_output, h_output, results>>

\* the script: open("DIRECTORY.md", "w"), then build_directory_md(".")
Main ==
  /\ pc = "start"
  /\ out_file' = [open |-> TRUE, content |-> <<>>]
  /\ Enter(<<".">>)

\* one triple of os.walk and the files good_filepaths yields from it
Walk ==
  /\ pc = "walk"
  /\ stack # <<>>
  /\ LET dirpath == Head(stack)
         d       == Resolve(dirpath)
         kept    == {n \in DirNames(tree, d) : KeepDir(n)}
         good    == {n \in FileNames(tree, d) : GoodFile(n)}
     IN  \E ds \in Perms(kept), fs \in Perms(good) :
           /\ yielded' = yielded \o
                [k \in 1..Len(fs) |->
                   [src |-> [dir |-> d, name |-> fs[k]],
                    path |-> YieldPath(dirpath, fs[k])]]
           /\ stack' = [k \in 1..Len(ds) |-> PathJoin(dirpath, ds[k])] \o Tail(stack)
  /\ UNCHANGED <<tree, pc, top_dir, files, idx, old_path, g_output, h_output,
                 results, out_file>>

\* the walk is exhausted: sorted(..., key=str.lower)
SortFiles ==
  /\ pc = "walk"
  /\ stack = <<>>
  /\ files' = Sorted(yielded)
  /\ idx' = 1
  /\ pc' = "loop"
  /\ UNCHANGED <<tree, top_dir, stack, yielded, old_path, g_output, h_output,
                 results, out_file>>

\* one iteration of the loop of build_directory_md
ProcessFile ==
  /\ pc = "loop"
  /\ idx <= Len(files)
  /\ LET f        == files[idx]
         filepath == PathSplit(f.path)[1]
         parts    == Split(filepath, os_sep)
         emits    == IF filepath # old_path THEN print_path(old_path, filepath) ELSE <<>>
     IN  /\ old_path' = IF filepath # old_path THEN filepath ELSE old_path
         /\ g_output' = g_output
              \o [k \in 1..Len(emits) |-> PartLine(emits[k], parts[emits[k] + 1])]
              \o <<FileLine(f.path)>>
         /\ h_output' = h_output
              \o [k \in 1..Len(emits) |->
                    [kind |-> "dir", depth |-> emits[k],
                     dir |-> SubSeq(parts, 1, emits[k] + 1),
                     path |-> f.path, src |-> f.src, call |-> Len(results) + 1]]
              \o <<[kind |-> "file", depth |-> Indent(filepath),
                    dir |-> IF filepath = <<>> THEN <<>> ELSE parts,
                    path |-> f.path, src |-> f.src, call |-> Len(results) + 1]>>
  /\ idx' = idx + 1
  /\ UNCHANGED <<tree, pc, top_dir, stack, yielded, files, results, out_file>>

\* return "# List of all files\n" + "\n".join(g_output)
Return ==
  /\ pc = "loop"
  /\ idx > Len(files)
  /\ results' = Append(results, Document(g_output))
  /\ pc' = "returned"
  /\ UNCHANGED <<tree, top_dir, stack, yielded, files, idx, old_path, g_output,
                 h_output, out_file>>

\* out_file.write(build_directory_md(".") + "\n"), and the file is closed
WriteFile ==
  /\ pc = "returned"
  /\ out_file.open
  /\ out_file' = Closed(results[Len(results)] \o <<"\n">>)
  /\ pc' = "done"
  /\ UNCHANGED <<tree, top_dir, stack, yielded, files, idx, old_path, g_output,
                 h_output, results>>

\* The script as it runs.
Next == Main \/ Walk \/ SortFiles \/ ProcessFile \/ Return \/ WriteFile

Spec == Init /\ [][Next]_vars

(***************************************************************************)
(* build_directory_md as a function of the module: a caller calls it with  *)
(* any starting directory, and again after it has returned.                *)
(***************************************************************************)
TopDirs == {<<".">>, <<"a">>, <<"s", "o", "r", "t", "i", "n", "g">>}

Call(td) ==
  /\ pc \in {"start", "returned"}
  /\ Len(results) < MaxCalls
  /\ Enter(td)
  /\ UNCHANGED out_file

CallAny == \E td \in TopDirs : Call(td)

NextCalls == CallAny \/ Walk \/ SortFiles \/ ProcessFile \/ Return

SpecCalls == Init /\ [][NextCalls]_vars

(***************************************************************************)
(* Properties                                                              *)
(***************************************************************************)
StartsWith(s, p) == Len(p) <= Len(s) /\ SubSeq(s, 1, Len(p)) = p

EndsWith(s, p) == Len(p) <= Len(s) /\ SubSeq(s, Len(s) - Len(p) + 1, Len(s)) = p

\* the positions of the file entries in the output
FileEntries == {i \in 1..Len(h_output) : h_output[i].kind = "file"}

\* the directory of a file of the tree, written with separators
DirStr(f) == Join(<<os_sep>>, f.dir)

\* a line is a file entry that links to url
LinksTo(line, url) == EndsWith(line, <<"]", "(">> \o url \o <<")">>)

\* the path an entry carries is the path its line links to
EntryPath(i) == h_output[i].path

EntryLinked(i) ==
  LinksTo(g_output[i], Url(PathSplit(EntryPath(i))[1], PathSplit(EntryPath(i))[2]))

UnderHidden(f) == \E n \in 1..Len(f.dir) : f.dir[n][1] \in {".", "_"}

\* C1: every path good_filepaths yields has an extension of the allow-list
\* (compared as the code compares it, in lower case) and a basename other
\* than mod.rs, and no file named mod.rs is yielded.
C1_YieldedAllowed ==
  \A k \in 1..Len(yielded) :
    LET base == PathSplit(yielded[k].path)[2]
    IN  /\ LowerStr(SplitExt(base)[2]) \in fs_exts
        /\ base # mod_rs
        /\ yielded[k].src.name # mod_rs

\* C2: no file under a directory whose name starts with "." or "_" is
\* yielded, and none is the file of an entry of the output.
C2_HiddenSkipped ==
  \A f \in tree :
    UnderHidden(f) =>
      /\ \A k \in 1..Len(yielded) : yielded[k].src # f
      /\ \A k \in 1..Len(files) : files[k].src # f
      /\ \A i \in FileEntries :
           /\ h_output[i].src # f
           /\ ~LinksTo(g_output[i], Url(DirStr(f), f.name))

C2_Witness ==
  /\ pc = "done"
  /\ Len(yielded) > 0
  /\ \E f \in tree : UnderHidden(f) /\ GoodFile(f.name) /\ Len(f.dir) = 2
  /\ \E f \in tree : UnderHidden(f) /\ GoodFile(f.name) /\ f.dir[1][1] = "_"

\* C3: of two file entries of the document the earlier one has the smaller
\* or equal lower-cased path, whatever order the walk yielded the files in.
C3_EntriesSorted ==
  \A i, j \in FileEntries :
    i < j =>
      /\ EntryLinked(i) /\ EntryLinked(j)
      /\ StrLeq(LowerStr(EntryPath(i)), LowerStr(EntryPath(j)))

\* the walk yielded two files against the order of the document, and their
\* order with case differs from their order without
C3_Witness ==
  /\ pc = "done"
  /\ \E i, j \in 1..Len(yielded) :
       /\ i < j
       /\ StrLess(LowerStr(yielded[j].path), LowerStr(yielded[i].path))
       /\ StrLess(yielded[i].path, yielded[j].path)

\* the top-level directory segment of the file of an entry ("" at the root)
TopSegment(i) == Split(PathSplit(EntryPath(i))[1], os_sep)[1]

\* the entry before entry i, 0 when i is the first
PrevEntry(i) ==
  LET P == {p \in FileEntries : p < i}
  IN  IF P = {} THEN 0 ELSE CHOOSE p \in P : \A q \in P : q <= p

PrevTopSegment(i) == IF PrevEntry(i) = 0 THEN <<>> ELSE TopSegment(PrevEntry(i))

HeadingLine(segment) ==
  <<"\n", "#", "#", " ">> \o Title(Replace(segment, "_", <<" ">>))

\* a top-level heading of the file's segment was appended before its entry
HeadingAppended(i) ==
  \E k \in (PrevEntry(i) + 1)..(i - 1) : g_output[k] = HeadingLine(TopSegment(i))

\* C4 as stated: a top-level heading is appended before a file's entry if
\* and only if its top-level segment differs from the previous file's.
C4_HeadingIffDiffers ==
  \A i \in FileEntries : HeadingAppended(i) <=> TopSegment(i) # PrevTopSegment(i)

\* C4: a top-level heading is appended before a file's entry if and only if
\* the file has a top-level directory segment (it is not in the root) and
\* the segment differs from the previous file's.
C4_HeadingIffDiffersNonEmpty ==
  \A i \in FileEntries :
    HeadingAppended(i) <=>
      (TopSegment(i) # PrevTopSegment(i) /\ TopSegment(i) # <<>>)

\* a root file follows a file of a directory, and a file follows a file of
\* the same top-level directory in another directory
C4_Witness ==
  /\ pc = "done"
  /\ \E i \in FileEntries :
       TopSegment(i) = <<>> /\ PrevTopSegment(i) # <<>>
  /\ \E i \in FileEntries :
       /\ PrevEntry(i) # 0
       /\ TopSegment(i) = PrevTopSegment(i)
       /\ h_output[i].dir # h_output[PrevEntry(i)].dir

C5_Line1 ==
  <<"#", " ", "L", "i", "s", "t", " ", "o", "f", " ", "a", "l", "l", " ",
    "f", "i", "l", "e", "s">>

C5_Line3 ==
  <<"#", "#", " ", "S", "o", "r", "t", "i", "n", "g">>

C5_BubbleEntry ==
  <<"*", " ", "[", "B", "u", "b", "b", "l", "e", " ", "S", "o", "r", "t",
    "]", "(", "h", "t", "t", "p", "s", ":", "/", "/", "g", "i", "t", "h",
    "u", "b", ".", "c", "o", "m", "/", "T", "h", "e", "A", "l", "g", "o",
    "r", "i", "t", "h", "m", "s", "/", "R", "u", "s", "t", "/", "b", "l",
    "o", "b", "/", "m", "a", "s", "t", "e", "r", "/", "s", "o", "r", "t",
    "i", "n", "g", "/", "b", "u", "b", "b", "l", "e", "_", "s", "o", "r",
    "t", ".", "r", "s", ")">>

C5_QuickEntry ==
  <<"*", " ", "[", "Q", "u", "i", "c", "k", " ", "S", "o", "r", "t", "]",
    "(", "h", "t", "t", "p", "s", ":", "/", "/", "g", "i", "t", "h", "u",
    "b", ".", "c", "o", "m", "/", "T", "h", "e", "A", "l", "g", "o", "r",
    "i", "t", "h", "m", "s", "/", "R", "u", "s", "t", "/", "b", "l", "o",
    "b", "/", "m", "a", "s", "t", "e", "r", "/", "s", "o", "r", "t", "i",
    "n", "g", "/", "q", "u", "i", "c", "k", "_", "s", "o", "r", "t", ".",
    "r", "s", ")">>

C5_Tree == {F_bubble, F_quick}

\* C5 as stated: for the tree of sorting/bubble_sort.rs and
\* sorting/quick_sort.rs the document is the title, an empty line, the
\* heading and the two entries with no indentation before the bullet.
C5_ScenarioNoIndent ==
  (tree = C5_Tree /\ pc = "done") =>
    results[1] = Join(<<"\n">>, <<C5_Line1, <<>>, C5_Line3, C5_BubbleEntry, C5_QuickEntry>>)

\* C5: for that tree the document is the title, an empty line, the heading
\* and the two entries, each entry indented by one pair of spaces.
C5_ScenarioIndented ==
  (tree = C5_Tree /\ pc = "done") =>
    /\ results[1] = Join(<<"\n">>, <<C5_Line1, <<>>, C5_Line3,
                                   <<" ", " ">> \o C5_BubbleEntry,
                                   <<" ", " ">> \o C5_QuickEntry>>)
    /\ out_file = Closed(results[1] \o <<"\n">>)

C5_Witness == tree = C5_Tree /\ pc = "done" /\ Len(g_output) = 3

\* the files of the subtree of top_dir that match
Matching(td) ==
  LET d == Resolve(td)
  IN  {f \in tree :
         /\ IsPrefix(d, f.dir)
         /\ GoodFile(f.name)
         /\ \A n \in (Len(d) + 1)..Len(f.dir) : f.dir[n][1] \notin {".", "_"}}

\* C6: the files build_directory_md(top_dir) lists are the matching files
\* of the subtree of top_dir.
C6_ListsSubtreeOfTopDir ==
  pc = "returned" =>
    {h_output[i].src : i \in {e \in FileEntries : h_output[e].call = Len(results)}}
      = Matching(top_dir)

\* C7: a second build_directory_md on the unchanged tree returns the
\* document the first returned.
C7_SecondResultEqualsFirst ==
  \A i, j \in 1..Len(results) : results[i] = results[j]

\* C8: the link of every file entry is URL_BASE, the directory of the file
\* and the name of the file as it is in the tree, joined with "/", every
\* space replaced by %20.
C8_UrlOfRawName ==
  \A i \in FileEntries :
    LinksTo(g_output[i],
            Replace(Join(<<"/">>, <<URL_BASE, DirStr(h_output[i].src), h_output[i].src.name>>),
                    " ", <<"%", "2", "0">>))

\* the marker of depth d: the heading marker at 0, else d pairs of spaces
\* and a bullet
RECURSIVE Pairs(_)
Pairs(d) == IF d = 0 THEN <<>> ELSE <<" ", " ">> \o Pairs(d - 1)

Marker(d) == IF d = 0 THEN <<"\n", "#", "#">> ELSE Pairs(d) \o <<"*">>

\* the depth of the entry of a file: separators of its directory plus one,
\* 0 without a directory
DepthOf(f) == IF f.dir = <<>> THEN 0 ELSE Count(DirStr(f), os_sep) + 1

\* C9: every file entry starts with the marker of the file's depth, and
\* every directory line with the marker of its segment's depth.
C9_EntryMarker ==
  \A i \in 1..Len(h_output) :
    IF h_output[i].kind = "file"
      THEN StartsWith(g_output[i], Marker(DepthOf(h_output[i].src)) \o <<" ", "[">>)
      ELSE StartsWith(g_output[i], Marker(Len(h_output[i].dir) - 1) \o <<" ">>)

C9_Witness ==
  /\ pc = "done"
  /\ \E i, j, k \in FileEntries :
       /\ DepthOf(h_output[i].src) = 0
       /\ DepthOf(h_output[j].src) = 1
       /\ DepthOf(h_output[k].src) = 2

\* the lines appended for directory p
LinesOf(p) == {k \in 1..Len(h_output) : h_output[k].kind = "dir" /\ h_output[k].dir = p}

\* C10: every directory with a collected file below it has exactly one
\* line, at its depth, before every entry below it and after the line of
\* its parent.
C10_OneLinePerDirectory ==
  pc = "done" =>
    \A i \in FileEntries :
      \A n \in 1..Len(h_output[i].src.dir) :
        LET p == SubSeq(h_output[i].src.dir, 1, n)
        IN  /\ Cardinality(LinesOf(p)) = 1
            /\ \A k \in LinesOf(p) :
                 /\ k < i
                 /\ g_output[k] = Marker(n - 1) \o <<" ">> \o PartTitle(p[n])
                 /\ n > 1 => \A q \in LinesOf(SubSeq(p, 1, n - 1)) : q < k

====
